---- MODULE Spec2Model ----
(***************************************************************************)
(* Model of the tournament scheduler (src/src/lib/scheduler.ts, second     *)
(* copy of the module, lines 310-675): generateSchedule and the functions  *)
(* it calls, one action per loop iteration or straight-line block.         *)
(*                                                                         *)
(* Teams are identified by their ids: the real teams are 1..n (unique),    *)
(* the BYE sentinel is BYE.  Instants are integer minutes; a Date is the   *)
(* number returned by getTime() divided by 60000.                          *)
(***************************************************************************)
EXTENDS Integers, Sequences, FiniteSets, TLC

\* ---------------------------------------------------------------- bounds
MaxTeams == 6
MaxPitches == 2
MaxPerTeam == 3
MaxTotal == 3
MaxBreak == 1
MaxClock == 1

\* ------------------------------------------------------ program constants
BYE == 0
MinMatchDuration == 5
MinHalfDuration == 3
DefaultMatchDuration == 30
DefaultHalfDuration == 15
DefaultHalftime == 5
DefaultMaxPerTeam == 3
AttemptFactor == 10
LargeThreshold == 100

\* undefined (an optional field left out, a Map miss) and NaN (the time
\* value of an Invalid Date)
Undefined == -1
NaN == -1

VARIABLES
    settings, teams, config,      \* the three arguments of generateSchedule
    now,                          \* the wall clock read by new Date()
    pc,                           \* position in generateSchedule
    workingTeams, warnings, matches, conflicts,
    teamIndexes, round, match,    \* generateRoundRobinMatches
    teamMatchCounts, pairings, attempts,   \* generateLimitedMatches
    pitchNextAvailable, teamLastEndTime, cursor,   \* assignTimeSlots
    prev,                         \* an earlier call: its arguments and result
    storedValue,                  \* useLocalStorage: the hook's state, per tab
    localStorage,                 \* the text stored under the hook's key
    storageEvents,                \* storage events not yet delivered, per tab
    lastCall,                     \* the latest setValue call; the state an updater found
    app,                          \* App.tsx: the wizard's state
    tournaments,                  \* App.tsx: the saved tournaments
    history,                      \* window.history: the entries and the current one
    issued                        \* the number of ids uuidv4() has returned

\* the variables of generateSchedule and of its caller
schedulerVars == <<settings, teams, config, now, pc, workingTeams, warnings,
                   matches, conflicts, teamIndexes, round, match,
                   teamMatchCounts, pairings, attempts, pitchNextAvailable,
                   teamLastEndTime, cursor, prev>>

\* the variables of useLocalStorage
storageVars == <<storedValue, localStorage, storageEvents, lastCall>>

\* the variables of App.tsx
wizardVars == <<app, tournaments, history, issued>>

vars == <<schedulerVars, storageVars, wizardVars>>

\* ---------------------------------------------------------------- helpers
Min(a, b) == IF a <= b THEN a ELSE b
Max(a, b) == IF a >= b THEN a ELSE b
Range(s) == {s[i] : i \in 1..Len(s)}

\* JavaScript truthiness of an optional number: undefined and 0 are falsy
Falsy(x) == x = Undefined \/ x = 0

\* Array.prototype.sort with a numeric comparator key(a) - key(b): stable,
\* ascending.  keyOf is a function from the elements to their keys.  The
\* element at position i moves to position SortRank(s, keyOf, i).
SortRank(s, keyOf, i) ==
    Cardinality({j \in 1..Len(s) :
                    \/ keyOf[s[j]] < keyOf[s[i]]
                    \/ (keyOf[s[j]] = keyOf[s[i]] /\ j <= i)})

StableSort(s, keyOf) ==
    LET rank == [i \in 1..Len(s) |-> SortRank(s, keyOf, i)]
    IN  [r \in 1..Len(s) |-> s[CHOOSE i \in 1..Len(s) : rank[i] = r]]

\* ------------------------------------------------------------------ types
\* new Date(`${startDate}T${startTime}`).getTime(): the start time is
\* <<hours, minutes>>; a start date that is not a date gives an Invalid Date.
ParseStart(startDate, startTime) ==
    IF startDate = "not-a-date" THEN NaN
    ELSE 60 * startTime[1] + startTime[2]

\* a match numbered from one
NewMatchOneBased(len, homeTeam, awayTeam, clock) ==
    [id |-> len + 1, homeTeam |-> homeTeam, awayTeam |-> awayTeam,
     startTime |-> clock, endTime |-> clock, pitch |-> 0]

\* the object literal pushed by both pairing functions: id match-${matches.length}
NewMatch(len, homeTeam, awayTeam, clock) ==
    [id |-> len, homeTeam |-> homeTeam, awayTeam |-> awayTeam,
     startTime |-> clock, endTime |-> clock, pitch |-> 0]


\* --------------------------------------------- calculateMatchDuration
calculateMatchDuration(s) ==
    IF s.matchMode = "full-time"
    THEN (IF Falsy(s.matchDurationMinutes) THEN DefaultMatchDuration
          ELSE s.matchDurationMinutes)
    ELSE LET halfDuration == IF Falsy(s.halfDurationMinutes) THEN DefaultHalfDuration
                             ELSE s.halfDurationMinutes
             halftime == IF Falsy(s.halftimeBreakMinutes) THEN DefaultHalftime
                         ELSE s.halftimeBreakMinutes
         IN  2 * halfDuration + halftime

\* ------------------------------------------------------ detectConflicts
\* The pushes of the first loop, in order: each match once under its home
\* team and once under its away team.
ConflictEntries(ms) ==
    [e \in 1..(2 * Len(ms)) |->
        LET m == ms[(e + 1) \div 2]
        IN  [team |-> IF e % 2 = 1 THEN m.homeTeam ELSE m.awayTeam,
             timeKey |-> m.startTime, m |-> m]]

\* a bucket that groups by team only
BucketByTeam(entries, team, timeKey) ==
    LET hit == SelectSeq(entries, LAMBDA e : e.team = team)
    IN  [i \in 1..Len(hit) |-> hit[i].m]

\* teamTimes.get(timeKey) of teamMatchesByTime.get(team)
Bucket(entries, team, timeKey) ==
    LET hit == SelectSeq(entries, LAMBDA e : e.team = team /\ e.timeKey = timeKey)
    IN  [i \in 1..Len(hit) |-> hit[i].m]

\* The (teamId, timeKey) keys in the iteration order of the nested Maps:
\* teams in order of first insertion, and per team the times in order of
\* first insertion.
FirstOccurrences(s, seen) ==
    LET first == SelectSeq([i \in 1..Len(s) |-> i],
                           LAMBDA i : /\ s[i] \notin seen
                                      /\ \A j \in 1..(i - 1) : s[j] # s[i])
    IN  [k \in 1..Len(first) |-> s[first[k]]]

RECURSIVE Concat(_)
Concat(ss) == IF Len(ss) = 0 THEN <<>> ELSE Head(ss) \o Concat(Tail(ss))

ConflictKeys(entries) ==
    LET teamOrder == FirstOccurrences([i \in 1..Len(entries) |-> entries[i].team], {})
        timesOf(t) ==
            LET mine == SelectSeq(entries, LAMBDA e : e.team = t)
            IN  FirstOccurrences([i \in 1..Len(mine) |-> mine[i].timeKey], {})
    IN  Concat([i \in 1..Len(teamOrder) |->
                  [j \in 1..Len(timesOf(teamOrder[i])) |->
                      <<teamOrder[i], timesOf(teamOrder[i])[j]>>]])

\* The second loop: a key whose bucket holds more than one match gives a
\* conflict, unless the key is in processedConflicts or came earlier.
CollectConflicts(keys, entries, processedConflicts) ==
    LET kept == SelectSeq([i \in 1..Len(keys) |-> i],
                   LAMBDA i :
                      /\ Len(Bucket(entries, keys[i][1], keys[i][2])) > 1
                      /\ keys[i] \notin processedConflicts
                      /\ \A j \in 1..(i - 1) : keys[j] # keys[i])
    IN  [c \in 1..Len(kept) |->
            [team |-> keys[kept[c]][1],
             matches |-> Bucket(entries, keys[kept[c]][1], keys[kept[c]][2])]]

detectConflicts(ms) ==
    CollectConflicts(ConflictKeys(ConflictEntries(ms)), ConflictEntries(ms), {})

\* -------------------------------------------- generateLimitedMatches
MaxPerTeamOf(c) ==
    IF Falsy(c.maxMatchesPerTeam) THEN DefaultMaxPerTeam ELSE c.maxMatchesPerTeam

\* targetMatches = Math.min(maxTotal, teams.length * maxPerTeam / 2) can be
\* a half-integer; the model keeps 2 * targetMatches.  maxTotal is Infinity
\* when maxTotalMatches is falsy.
TwiceTargetMatches(ts, c) ==
    LET twiceMaxPossible == Len(ts) * MaxPerTeamOf(c)
    IN  IF Falsy(c.maxTotalMatches) THEN twiceMaxPossible
        ELSE Min(2 * c.maxTotalMatches, twiceMaxPossible)

\* a loop condition whose attempt budget is half the target
LimitedLoopConditionHalfBudget(ts, c, len, att) ==
    /\ 2 * len < TwiceTargetMatches(ts, c)
    /\ 4 * att < TwiceTargetMatches(ts, c)

\* a loop condition that lets the loop run once more at the target
LimitedLoopConditionInclusive(ts, c, len, att) ==
    /\ 2 * len <= TwiceTargetMatches(ts, c)
    /\ 2 * att < TwiceTargetMatches(ts, c) * AttemptFactor

\* matches.length < targetMatches && attempts < maxAttempts
LimitedLoopCondition(ts, c, len, att) ==
    /\ 2 * len < TwiceTargetMatches(ts, c)
    /\ 2 * att < TwiceTargetMatches(ts, c) * AttemptFactor

\* a filter that keeps the teams that have reached maxPerTeam
availableTeamsInclusive(ts, counts, maxPerTeam) ==
    SelectSeq(ts, LAMBDA t : counts[t] <= maxPerTeam)

\* teams.filter(count < maxPerTeam)
availableTeams(ts, counts, maxPerTeam) ==
    SelectSeq(ts, LAMBDA t : counts[t] < maxPerTeam)

\* [t1.id, t2.id].sort().join('-'): the key of the unordered pair
pairKey(t1, t2) == {t1, t2}

\* The nested for loops over i < j: the first pair, in that scan order,
\* whose key is not in pairings; <<>> when every pair is used.
FirstUnusedPair(avail, used) ==
    LET cand == {ij \in (1..Len(avail)) \X (1..Len(avail)) :
                    /\ ij[1] < ij[2]
                    /\ pairKey(avail[ij[1]], avail[ij[2]]) \notin used}
    IN  IF cand = {} THEN <<>>
        ELSE CHOOSE ij \in cand :
                \A o \in cand : \/ ij[1] < o[1]
                                \/ (ij[1] = o[1] /\ ij[2] <= o[2])

\* ---------------------------------------------------- assignTimeSlots
\* max(start, homeLastEnd, awayLastEnd) as the two if statements compute it
earliestPossibleStart(startDateTime, homeLastEnd, awayLastEnd) ==
    LET e1 == IF homeLastEnd # Undefined /\ homeLastEnd > startDateTime
              THEN homeLastEnd ELSE startDateTime
    IN  IF awayLastEnd # Undefined /\ awayLastEnd > e1 THEN awayLastEnd ELSE e1

\* a candidate start that ignores when the pitch is free
possibleStartIgnoringPitch(earliest, pitchAvailableAt) == earliest

possibleStartTime(earliest, pitchAvailableAt) == Max(earliest, pitchAvailableAt)

\* a loop over the pitches that starts at index 1
PitchIndexesFromOne(numPitches) == 1..(numPitches - 1)

\* the pitch indexes the for loop visits
PitchIndexes(numPitches) == 0..(numPitches - 1)

\* The for loop over the pitches: best is [pitch, start], starting from
\* [pitch |-> -1, start |-> Undefined] (bestStartTime = null).
RECURSIVE ScanPitches(_, _, _, _, _)
ScanPitches(pitch, numPitches, earliest, nextAvailable, best) ==
    IF pitch >= numPitches THEN best
    ELSE IF pitch \notin PitchIndexes(numPitches)
    THEN ScanPitches(pitch + 1, numPitches, earliest, nextAvailable, best)
    ELSE LET possible == possibleStartTime(earliest, nextAvailable[pitch + 1])
         IN  IF best.start = Undefined \/ possible < best.start
             THEN ScanPitches(pitch + 1, numPitches, earliest, nextAvailable,
                              [pitch |-> pitch, start |-> possible])
             ELSE ScanPitches(pitch + 1, numPitches, earliest, nextAvailable, best)

\* a scan whose ties go to the highest pitch index
BestSlotLastPitch(numPitches, earliest, nextAvailable) ==
    LET start(p) == possibleStartTime(earliest, nextAvailable[p + 1])
        least == CHOOSE p \in PitchIndexes(numPitches) :
                    \A q \in PitchIndexes(numPitches) : start(p) <= start(q)
        last == CHOOSE p \in PitchIndexes(numPitches) :
                    /\ start(p) = start(least)
                    /\ \A q \in PitchIndexes(numPitches) :
                          start(q) = start(least) => q <= p
    IN  [pitch |-> last, start |-> start(last)]

BestSlot(numPitches, earliest, nextAvailable) ==
    ScanPitches(0, numPitches, earliest, nextAvailable,
                [pitch |-> -1, start |-> Undefined])

\* a pitch stored under its zero-based loop index
PitchNumberZeroBased(bestPitch) == bestPitch

\* match.pitch = bestPitch + 1
PitchNumber(bestPitch) == bestPitch + 1

\* a pitch that is free again one minute before the break is over
NextAvailableBeforeBreak(endTime, breakBetweenMatches) ==
    endTime + breakBetweenMatches - 1

\* a pitch that is free again the moment the match ends
NextAvailableNoBreak(endTime, breakBetweenMatches) == endTime

\* pitchNextAvailable[bestPitch] after the match is placed
NextAvailableAfter(endTime, breakBetweenMatches) == endTime + breakBetweenMatches

\* an update that records the end time for the home team only
RecordLastEndHomeOnly(lastEnd, m, endTime) ==
    [t \in DOMAIN lastEnd |-> IF t = m.homeTeam THEN endTime ELSE lastEnd[t]]

\* teamLastEndTime.set(team, match.endTime) for both teams of the match
RecordLastEnd(lastEnd, m, endTime) ==
    [t \in DOMAIN lastEnd |->
        IF t = m.homeTeam \/ t = m.awayTeam THEN endTime ELSE lastEnd[t]]

\* a sort that leaves matches of equal start time in reverse order
SortByStartTiesReversed(ms) ==
    LET reversed == [i \in 1..Len(ms) |-> ms[Len(ms) + 1 - i]]
    IN  StableSort(reversed, [m \in Range(ms) |-> m.startTime])

\* matches.sort((a, b) => a.startTime.getTime() - b.startTime.getTime())
SortByStart(ms) ==
    StableSort(ms, [m \in Range(ms) |-> m.startTime])

\* ------------------------------------------------------ useLocalStorage
\* The stored value is the tournaments list of App.tsx, each tournament
\* standing for its id; texts are sequences of characters.
MaxTournaments == 3
MaxStored == 3

StoredLists == UNION {[1..n -> 1..MaxTournaments] : n \in 0..MaxStored}

\* localStorage.getItem(key) === null: nothing is stored under the key
NoItem == <<"null">>

Digits == <<"0", "1", "2", "3", "4", "5", "6", "7", "8", "9">>

\* the decimal text of a number
RECURSIVE Numeral(_)
Numeral(n) ==
    IF n < 10 THEN <<Digits[n + 1]>>
    ELSE Numeral(n \div 10) \o <<Digits[(n % 10) + 1]>>

RECURSIVE JoinItems(_)
JoinItems(v) ==
    IF Len(v) = 0 THEN <<>>
    ELSE IF Len(v) = 1 THEN Numeral(v[1])
    ELSE Numeral(v[1]) \o <<",">> \o JoinItems(Tail(v))

\* JSON.stringify of a list: "[1,2]"
JSONstringify(v) == <<"[">> \o JoinItems(v) \o <<"]">>

DigitValue(c) == CHOOSE d \in 0..9 : Digits[d + 1] = c

RECURSIVE ParseNumeral(_)
ParseNumeral(cs) ==
    IF Len(cs) = 0 THEN 0
    ELSE 10 * ParseNumeral(SubSeq(cs, 1, Len(cs) - 1)) + DigitValue(cs[Len(cs)])

\* the texts between the commas
RECURSIVE SplitItems(_)
SplitItems(cs) ==
    IF Len(cs) = 0 THEN <<>>
    ELSE LET commas == {i \in 1..Len(cs) : cs[i] = ","}
         IN  IF commas = {} THEN <<cs>>
             ELSE LET c == CHOOSE i \in commas : \A j \in commas : i <= j
                  IN  <<SubSeq(cs, 1, c - 1)>> \o SplitItems(SubSeq(cs, c + 1, Len(cs)))

\* JSON.parse of the text of a list
JSONparse(text) ==
    LET items == SplitItems(SubSeq(text, 2, Len(text) - 1))
    IN  [i \in 1..Len(items) |-> ParseNumeral(items[i])]

\* the initializer of useState: item ? JSON.parse(item) : initialValue
useStateInitial(item, initialValue) ==
    IF item = NoItem THEN initialValue ELSE JSONparse(item)

\* the updater functions App.tsx passes to setTournaments
ApplyUpdater(fn, current) ==
    CASE fn.op = "save" ->
           IF \E i \in 1..Len(current) : current[i] = fn.id THEN current
           ELSE Append(current, fn.id)
      [] fn.op = "delete" -> SelectSeq(current, LAMBDA t : t # fn.id)
      [] fn.op = "copy" -> Append(current, fn.id)

DirectValue(v) == [isFunction |-> FALSE, value |-> v]
UpdaterValue(op, id) == [isFunction |-> TRUE, op |-> op, id |-> id]

\* an updater that is never applied
valueToStoreNoUpdater(value, prevValue) ==
    IF value.isFunction THEN prevValue ELSE value.value

\* value instanceof Function ? value(prevValue) : value
valueToStore(value, prevValue) ==
    IF value.isFunction THEN ApplyUpdater(value, prevValue) ELSE value.value

NoSetValue == [tab |-> 0, value |-> DirectValue(<<>>), prevValue |-> <<>>]

\* no hook is mounted
NoHook ==
    /\ storedValue = <<>>
    /\ localStorage = NoItem
    /\ storageEvents = <<>>
    /\ lastCall = NoSetValue

\* App is not mounted
NoApp ==
    /\ app = <<>>
    /\ tournaments = <<>>
    /\ history = <<>>
    /\ issued = 0

\* ----------------------------------------------------------- the inputs
TeamLists == {[i \in 1..n |-> i] : n \in 0..MaxTeams}

DurationSettings ==
    [matchMode : {"full-time"},
     matchDurationMinutes : MinMatchDuration..(MinMatchDuration + 1),
     halfDurationMinutes : {Undefined}, halftimeBreakMinutes : {Undefined}]
    \cup
    [matchMode : {"two-halves"}, matchDurationMinutes : {Undefined},
     halfDurationMinutes : {MinHalfDuration},
     halftimeBreakMinutes : {Undefined, 0, 1}]

SettingsSet ==
    {[startDate |-> sd, startTime |-> <<9, 0>>, numPitches |-> np,
      matchMode |-> d.matchMode,
      matchDurationMinutes |-> d.matchDurationMinutes,
      halfDurationMinutes |-> d.halfDurationMinutes,
      halftimeBreakMinutes |-> d.halftimeBreakMinutes,
      breakBetweenMatches |-> br] :
        sd \in {"2026-01-15", "not-a-date"}, np \in 1..MaxPitches,
        d \in DurationSettings, br \in 0..MaxBreak}

ConfigSet ==
    {[mode |-> "round-robin", maxMatchesPerTeam |-> Undefined,
      maxTotalMatches |-> Undefined]}
    \cup
    [mode : {"limited-matches"}, maxMatchesPerTeam : 1..MaxPerTeam,
     maxTotalMatches : {Undefined} \cup (1..MaxTotal)]

NoCall == [called |-> FALSE]

\* the locals of a call that has not started
Fresh ==
    /\ pc = "start"
    /\ workingTeams = <<>>
    /\ warnings = <<>>
    /\ matches = <<>>
    /\ conflicts = <<>>
    /\ teamIndexes = <<>>
    /\ round = 0
    /\ match = 0
    /\ teamMatchCounts = <<>>
    /\ pairings = {}
    /\ attempts = 0
    /\ pitchNextAvailable = <<>>
    /\ teamLastEndTime = <<>>
    /\ cursor = 0

Init ==
    /\ settings \in SettingsSet
    /\ teams \in TeamLists
    /\ config \in ConfigSet
    /\ now \in 0..MaxClock
    /\ prev = NoCall
    /\ NoHook
    /\ NoApp
    /\ Fresh

\* ------------------------------------------------------ generateSchedule
\* a working list that is the caller's array itself: the BYE push shows
CallerTeamsAliased(ts, c) ==
    IF c.mode = "round-robin" /\ Len(ts) % 2 # 0 THEN Append(ts, BYE) ELSE ts

\* The caller's array after lines 372-377: workingTeams = [...teams] is a
\* fresh array, so workingTeams.push(BYE_TEAM) does not reach it.
CallerTeams(ts, c) == ts

\* lines 369-385: the working copy, the BYE team, the dispatch on the mode
Start ==
    /\ pc = "start"
    /\ IF config.mode = "round-robin" /\ Len(teams) % 2 # 0
       THEN /\ workingTeams' = Append(teams, BYE)
            /\ warnings' = << <<"BYE">> >>
       ELSE /\ workingTeams' = teams
            /\ warnings' = <<>>
    /\ teams' = CallerTeams(teams, config)
    /\ pc' = IF config.mode = "round-robin" THEN "rr" ELSE "limited"
    /\ UNCHANGED <<settings, config, now, matches, conflicts,
                   teamIndexes, round, match, teamMatchCounts, pairings,
                   attempts, pitchNextAvailable, teamLastEndTime, cursor, prev, storageVars, wizardVars>>

\* -------------------------------------------- generateRoundRobinMatches
\* n < 2: return matches (before assignTimeSlots is reached)
RRTooFew ==
    /\ pc = "rr"
    /\ Len(workingTeams) < 2
    /\ pc' = "finish"
    /\ UNCHANGED <<settings, teams, config, now, workingTeams, warnings,
                   matches, conflicts, teamIndexes, round, match,
                   teamMatchCounts, pairings, attempts, pitchNextAvailable,
                   teamLastEndTime, cursor, prev, storageVars, wizardVars>>

RRInit ==
    /\ pc = "rr"
    /\ Len(workingTeams) >= 2
    /\ teamIndexes' = [i \in 1..Len(workingTeams) |-> i - 1]
    /\ round' = 0
    /\ match' = 0
    /\ pc' = "rr_loop"
    /\ UNCHANGED <<settings, teams, config, now, workingTeams, warnings,
                   matches, conflicts, teamMatchCounts, pairings, attempts,
                   pitchNextAvailable, teamLastEndTime, cursor, prev, storageVars, wizardVars>>

\* the home and away indexes of the inner loop body (0-based positions)
RRHomeIndex(idx, n, k) == IF k = 0 THEN idx[0 + 1] ELSE idx[k + 1]
RRAwayIndex(idx, n, k) == IF k = 0 THEN idx[(n - 1) + 1] ELSE idx[(n - 1 - k) + 1]

\* a rotation that splices the popped index in at position 0
RotateToFront(idx) == <<idx[Len(idx)]>> \o SubSeq(idx, 1, Len(idx) - 1)

\* pop the last index and splice it in at position 1
Rotate(idx) ==
    LET last == idx[Len(idx)]
        rest == SubSeq(idx, 1, Len(idx) - 1)
    IN  SubSeq(rest, 1, Min(1, Len(rest))) \o <<last>> \o SubSeq(rest, 2, Len(rest))

\* a filter that looks at the home team only
IsRealPairOnlyHome(homeTeam, awayTeam) == homeTeam # BYE

\* homeTeam.id !== 'BYE' && awayTeam.id !== 'BYE'
IsRealPairOnlyAway(homeTeam, awayTeam) == awayTeam # BYE

IsRealPair(homeTeam, awayTeam) == homeTeam # BYE /\ awayTeam # BYE

\* one iteration of the inner loop
RRPair ==
    /\ pc = "rr_loop"
    /\ round < Len(workingTeams) - 1
    /\ 2 * match < Len(workingTeams)
    /\ LET n == Len(workingTeams)
           homeTeam == workingTeams[RRHomeIndex(teamIndexes, n, match) + 1]
           awayTeam == workingTeams[RRAwayIndex(teamIndexes, n, match) + 1]
       IN  matches' = IF IsRealPair(homeTeam, awayTeam)
                      THEN Append(matches, NewMatch(Len(matches), homeTeam, awayTeam, now))
                      ELSE matches
    /\ match' = match + 1
    /\ UNCHANGED <<settings, teams, config, now, pc, workingTeams, warnings,
                   conflicts, teamIndexes, round, teamMatchCounts, pairings,
                   attempts, pitchNextAvailable, teamLastEndTime, cursor, prev, storageVars, wizardVars>>

\* the end of a round: rotate, next round
RRRotate ==
    /\ pc = "rr_loop"
    /\ round < Len(workingTeams) - 1
    /\ 2 * match >= Len(workingTeams)
    /\ teamIndexes' = Rotate(teamIndexes)
    /\ round' = round + 1
    /\ match' = 0
    /\ UNCHANGED <<settings, teams, config, now, pc, workingTeams, warnings,
                   matches, conflicts, teamMatchCounts, pairings, attempts,
                   pitchNextAvailable, teamLastEndTime, cursor, prev, storageVars, wizardVars>>

\* all rounds done: return assignTimeSlots(matches, settings)
RRDone ==
    /\ pc = "rr_loop"
    /\ round >= Len(workingTeams) - 1
    /\ pc' = "assign"
    /\ UNCHANGED <<settings, teams, config, now, workingTeams, warnings,
                   matches, conflicts, teamIndexes, round, match,
                   teamMatchCounts, pairings, attempts, pitchNextAvailable,
                   teamLastEndTime, cursor, prev, storageVars, wizardVars>>

\* ---------------------------------------------- generateLimitedMatches
\* lines 451-469: the counters, the target, the duplicate-matchups warning
LimitedInit ==
    /\ pc = "limited"
    /\ teamMatchCounts' = [t \in Range(workingTeams) |-> 0]
    /\ pairings' = {}
    /\ attempts' = 0
    /\ warnings' = IF MaxPerTeamOf(config) > Len(workingTeams) - 1
                   THEN Append(warnings, <<"DUPLICATES", MaxPerTeamOf(config),
                                           Len(workingTeams) - 1>>)
                   ELSE warnings
    /\ pc' = "limited_loop"
    /\ UNCHANGED <<settings, teams, config, now, workingTeams, matches,
                   conflicts, teamIndexes, round, match, pitchNextAvailable,
                   teamLastEndTime, cursor, prev, storageVars, wizardVars>>

\* available teams left in list order
SortedAvailableUnsorted(ts, counts, maxPerTeam) ==
    availableTeams(ts, counts, maxPerTeam)

\* the sorted available teams of one iteration
SortedAvailable(ts, counts, maxPerTeam) ==
    StableSort(availableTeams(ts, counts, maxPerTeam), counts)

\* a choice that never scans for an unused pair
ChoosePairFirstTwo(avail, used) ==
    [homeTeam |-> avail[1], awayTeam |-> avail[2],
     fresh |-> pairKey(avail[1], avail[2]) \notin used]

\* the pair an iteration chooses: the first unused pair, else the first two
\* available teams; used tells whether the pair key is added to pairings
ChoosePair(avail, used) ==
    LET ij == FirstUnusedPair(avail, used)
    IN  IF ij # <<>>
        THEN [homeTeam |-> avail[ij[1]], awayTeam |-> avail[ij[2]], fresh |-> TRUE]
        ELSE [homeTeam |-> avail[1], awayTeam |-> avail[2], fresh |-> FALSE]

\* one iteration of the while loop that adds a match (lines 471-522)
LimitedIteration ==
    /\ pc = "limited_loop"
    /\ LimitedLoopCondition(workingTeams, config, Len(matches), attempts)
    /\ Len(availableTeams(workingTeams, teamMatchCounts, MaxPerTeamOf(config))) >= 2
    /\ attempts' = attempts + 1
    /\ LET avail == SortedAvailable(workingTeams, teamMatchCounts, MaxPerTeamOf(config))
           pair == ChoosePair(avail, pairings)
       IN  /\ pairings' = IF pair.fresh
                          THEN pairings \cup {pairKey(pair.homeTeam, pair.awayTeam)}
                          ELSE pairings
           /\ matches' = Append(matches, NewMatch(Len(matches), pair.homeTeam,
                                                  pair.awayTeam, now))
           /\ teamMatchCounts' =
                LET c1 == [teamMatchCounts EXCEPT ![pair.homeTeam] = @ + 1]
                IN  [c1 EXCEPT ![pair.awayTeam] = @ + 1]
    /\ UNCHANGED <<settings, teams, config, now, pc, workingTeams, warnings,
                   conflicts, teamIndexes, round, match, pitchNextAvailable,
                   teamLastEndTime, cursor, prev, storageVars, wizardVars>>

\* an iteration that finds fewer than two available teams: break
LimitedBreak ==
    /\ pc = "limited_loop"
    /\ LimitedLoopCondition(workingTeams, config, Len(matches), attempts)
    /\ Len(availableTeams(workingTeams, teamMatchCounts, MaxPerTeamOf(config))) < 2
    /\ attempts' = attempts + 1
    /\ pc' = "assign"
    /\ UNCHANGED <<settings, teams, config, now, workingTeams, warnings,
                   matches, conflicts, teamIndexes, round, match,
                   teamMatchCounts, pairings, pitchNextAvailable,
                   teamLastEndTime, cursor, prev, storageVars, wizardVars>>

\* the loop condition fails: assignTimeSlots(matches, settings)
LimitedExit ==
    /\ pc = "limited_loop"
    /\ ~LimitedLoopCondition(workingTeams, config, Len(matches), attempts)
    /\ pc' = "assign"
    /\ UNCHANGED <<settings, teams, config, now, workingTeams, warnings,
                   matches, conflicts, teamIndexes, round, match,
                   teamMatchCounts, pairings, attempts, pitchNextAvailable,
                   teamLastEndTime, cursor, prev, storageVars, wizardVars>>

\* ---------------------------------------------------- assignTimeSlots
StartDateTime == ParseStart(settings.startDate, settings.startTime)

\* isNaN(startDateTime.getTime()): throw
AssignThrow ==
    /\ pc = "assign"
    /\ StartDateTime = NaN
    /\ pc' = "error"
    /\ UNCHANGED <<settings, teams, config, now, workingTeams, warnings,
                   matches, conflicts, teamIndexes, round, match,
                   teamMatchCounts, pairings, attempts, pitchNextAvailable,
                   teamLastEndTime, cursor, prev, storageVars, wizardVars>>

\* lines 538-540: every pitch is free from the start instant on
AssignInit ==
    /\ pc = "assign"
    /\ StartDateTime # NaN
    /\ pitchNextAvailable' = [p \in 1..settings.numPitches |-> StartDateTime]
    /\ teamLastEndTime' = [t \in Range(workingTeams) |-> Undefined]
    /\ cursor' = 1
    /\ pc' = "assign_loop"
    /\ UNCHANGED <<settings, teams, config, now, workingTeams, warnings,
                   matches, conflicts, teamIndexes, round, match,
                   teamMatchCounts, pairings, attempts, prev, storageVars, wizardVars>>

\* the slot the loop body finds for match m
SlotFor(m, numPitches, startDateTime, lastEnd, nextAvailable) ==
    BestSlot(numPitches,
             earliestPossibleStart(startDateTime, lastEnd[m.homeTeam], lastEnd[m.awayTeam]),
             nextAvailable)

\* one iteration of the for loop over the matches (lines 542-577)
AssignMatch ==
    /\ pc = "assign_loop"
    /\ cursor <= Len(matches)
    /\ LET m == matches[cursor]
           best == SlotFor(m, settings.numPitches, StartDateTime,
                           teamLastEndTime, pitchNextAvailable)
           endTime == best.start + calculateMatchDuration(settings)
       IN  IF best.pitch >= 0 /\ best.start # Undefined
           THEN /\ matches' = [matches EXCEPT ![cursor] =
                                 [m EXCEPT !.pitch = PitchNumber(best.pitch),
                                           !.startTime = best.start,
                                           !.endTime = endTime]]
                /\ pitchNextAvailable' =
                     [pitchNextAvailable EXCEPT ![best.pitch + 1] =
                        NextAvailableAfter(endTime, settings.breakBetweenMatches)]
                /\ teamLastEndTime' = RecordLastEnd(teamLastEndTime, m, endTime)
           ELSE UNCHANGED <<matches, pitchNextAvailable, teamLastEndTime>>
    /\ cursor' = cursor + 1
    /\ UNCHANGED <<settings, teams, config, now, pc, workingTeams, warnings,
                   conflicts, teamIndexes, round, match, teamMatchCounts,
                   pairings, attempts, prev, storageVars, wizardVars>>

\* line 579: sort by start time and return
AssignSort ==
    /\ pc = "assign_loop"
    /\ cursor > Len(matches)
    /\ matches' = SortByStart(matches)
    /\ pc' = "finish"
    /\ UNCHANGED <<settings, teams, config, now, workingTeams, warnings,
                   conflicts, teamIndexes, round, match, teamMatchCounts,
                   pairings, attempts, pitchNextAvailable, teamLastEndTime,
                   cursor, prev, storageVars, wizardVars>>

\* ------------------------------------------- generateSchedule, the end
\* warnings.push(...result.warnings) in limited-matches mode: result.warnings
\* is the warnings array itself, so its elements are pushed onto it again
AfterPairing(c, w) == IF c.mode = "round-robin" THEN w ELSE w \o w

ConflictWarning(cs, w) ==
    IF Len(cs) > 0 THEN Append(w, <<"CONFLICTS", Len(cs)>>) ELSE w

\* a threshold test that includes the threshold itself
LargeWarningInclusive(ms, w) ==
    IF Len(ms) >= LargeThreshold THEN Append(w, <<"LARGE", Len(ms)>>) ELSE w

LargeWarning(ms, w) ==
    IF Len(ms) > LargeThreshold THEN Append(w, <<"LARGE", Len(ms)>>) ELSE w

\* lines 383-397: the conflicts, the two policy warnings, the return
Finish ==
    /\ pc = "finish"
    /\ conflicts' = detectConflicts(matches)
    /\ warnings' = LargeWarning(matches,
                     ConflictWarning(detectConflicts(matches),
                       AfterPairing(config, warnings)))
    /\ pc' = "done"
    /\ UNCHANGED <<settings, teams, config, now, workingTeams, matches,
                   teamIndexes, round, match, teamMatchCounts, pairings,
                   attempts, pitchNextAvailable, teamLastEndTime, cursor, prev, storageVars, wizardVars>>

Next ==
    \/ Start
    \/ RRTooFew
    \/ RRInit
    \/ RRPair
    \/ RRRotate
    \/ RRDone
    \/ LimitedInit
    \/ LimitedIteration
    \/ LimitedBreak
    \/ LimitedExit
    \/ AssignThrow
    \/ AssignInit
    \/ AssignMatch
    \/ AssignSort
    \/ Finish

Spec == Init /\ [][Next]_vars


\* ----------------------------------------- repeated calls (determinism)
\* The caller may call generateSchedule again, with any arguments; the wall
\* clock advances between and during calls.
MaxRepeatTeams == 3

RepeatSettings ==
    {s \in SettingsSet : /\ s.matchMode = "full-time"
                         /\ s.matchDurationMinutes = MinMatchDuration
                         /\ s.breakBetweenMatches = 0}

RepeatTeams == {t \in TeamLists : Len(t) <= MaxRepeatTeams}

RepeatConfigs ==
    {c \in ConfigSet : c.mode = "limited-matches"
                          => (c.maxMatchesPerTeam = 2 /\ c.maxTotalMatches = Undefined)}

InitRepeat ==
    /\ settings \in RepeatSettings
    /\ teams \in RepeatTeams
    /\ config \in RepeatConfigs
    /\ now = 0
    /\ prev = NoCall
    /\ NoHook
    /\ NoApp
    /\ Fresh

\* time passes
Tick ==
    /\ now < MaxClock
    /\ now' = now + 1
    /\ UNCHANGED <<settings, teams, config, pc, workingTeams, warnings,
                   matches, conflicts, teamIndexes, round, match,
                   teamMatchCounts, pairings, attempts, pitchNextAvailable,
                   teamLastEndTime, cursor, prev, storageVars, wizardVars>>

\* the caller keeps the arguments and the matches of a call that returned
Remember ==
    /\ pc = "done"
    /\ prev' = [called |-> TRUE, settings |-> settings, teams |-> teams,
                config |-> config, matches |-> matches, at |-> now]
    /\ UNCHANGED <<settings, teams, config, now, pc, workingTeams, warnings,
                   matches, conflicts, teamIndexes, round, match,
                   teamMatchCounts, pairings, attempts, pitchNextAvailable,
                   teamLastEndTime, cursor, storageVars, wizardVars>>

\* another call of generateSchedule: every local is created anew
CallAgain ==
    /\ pc \in {"done", "error"}
    /\ settings' \in RepeatSettings
    /\ teams' \in RepeatTeams
    /\ config' \in RepeatConfigs
    /\ pc' = "start"
    /\ workingTeams' = <<>>
    /\ warnings' = <<>>
    /\ matches' = <<>>
    /\ conflicts' = <<>>
    /\ teamIndexes' = <<>>
    /\ round' = 0
    /\ match' = 0
    /\ teamMatchCounts' = <<>>
    /\ pairings' = {}
    /\ attempts' = 0
    /\ pitchNextAvailable' = <<>>
    /\ teamLastEndTime' = <<>>
    /\ cursor' = 0
    /\ UNCHANGED <<now, prev, storageVars, wizardVars>>

NextRepeat ==
    \/ Next
    \/ Tick
    \/ Remember
    \/ CallAgain

SpecRepeat == InitRepeat /\ [][NextRepeat]_vars

\* ------------------------------------- detectConflicts on any match list
\* A caller builds a list of matches by hand, match by match, and hands it
\* to detectConflicts.
MaxListLen == 3
MaxListTeams == 3
MaxListTime == 1

\* any two start times of the list are closer than one match duration
ListDuration == MaxListTime + 1

\* a match between two different teams, with any start time; the id of a
\* match is its position in the list
ListMatch(len, h, a, t) ==
    [id |-> len, homeTeam |-> h, awayTeam |-> a, startTime |-> t,
     endTime |-> t + ListDuration, pitch |-> 1]

InitDetect ==
    /\ matches = <<>>
    /\ settings = CHOOSE s \in SettingsSet : TRUE
    /\ teams = [i \in 1..MaxListTeams |-> i]
    /\ config = CHOOSE c \in ConfigSet : c.mode = "round-robin"
    /\ now = 0
    /\ prev = NoCall
    /\ NoHook
    /\ NoApp
    /\ pc = "build"
    /\ workingTeams = <<>>
    /\ warnings = <<>>
    /\ conflicts = <<>>
    /\ teamIndexes = <<>>
    /\ round = 0
    /\ match = 0
    /\ teamMatchCounts = <<>>
    /\ pairings = {}
    /\ attempts = 0
    /\ pitchNextAvailable = <<>>
    /\ teamLastEndTime = <<>>
    /\ cursor = 0

\* The teams a new match may be between.  detectConflicts only compares
\* team ids, so the first match is taken between teams 1 and 2.
ListTeamsAt(len) == IF len = 0 THEN 1..Min(2, MaxListTeams) ELSE 1..MaxListTeams

\* the caller adds a match to the list
AddMatch ==
    /\ pc = "build"
    /\ Len(matches) < MaxListLen
    /\ \E h \in ListTeamsAt(Len(matches)), a \in ListTeamsAt(Len(matches)),
          t \in 0..MaxListTime :
          /\ h # a
          /\ matches' = Append(matches, ListMatch(Len(matches), h, a, t))
    /\ UNCHANGED <<settings, teams, config, now, pc, workingTeams, warnings,
                   conflicts, teamIndexes, round, match, teamMatchCounts,
                   pairings, attempts, pitchNextAvailable, teamLastEndTime,
                   cursor, prev, storageVars, wizardVars>>

\* detectConflicts(matches)
Detect ==
    /\ pc = "build"
    /\ conflicts' = detectConflicts(matches)
    /\ pc' = "detected"
    /\ UNCHANGED <<settings, teams, config, now, workingTeams, warnings,
                   matches, teamIndexes, round, match, teamMatchCounts,
                   pairings, attempts, pitchNextAvailable, teamLastEndTime,
                   cursor, prev, storageVars, wizardVars>>

NextDetect ==
    \/ AddMatch
    \/ Detect

SpecDetect == InitDetect /\ [][NextDetect]_vars

\* ------------------------------------------- team lists with shared ids
\* generateSchedule is exported and takes any Team[]: a caller other than
\* the wizard may hand it teams whose ids are not unique.  Every Map and
\* Set of the scheduler is keyed by team id.
MaxSharedTeams == 3

SharedIdTeamLists ==
    UNION {[1..n -> 1..2] : n \in 0..MaxSharedTeams}

InitSharedIds ==
    /\ settings \in RepeatSettings
    /\ teams \in SharedIdTeamLists
    /\ config \in RepeatConfigs
    /\ now = 0
    /\ prev = NoCall
    /\ NoHook
    /\ NoApp
    /\ Fresh

SpecSharedIds == InitSharedIds /\ [][Next]_vars

\* ------------------------------------------------- large tournaments
\* Team counts and limits around the large-tournament threshold: 12 and 15
\* teams (66 and 105 round-robin matches), and limited-matches runs cut at
\* exactly LargeThreshold and LargeThreshold + 1 matches.
LargeTeamLists == {[i \in 1..n |-> i] : n \in {0, 12, 15}}

LargeConfigs ==
    {[mode |-> "round-robin", maxMatchesPerTeam |-> Undefined,
      maxTotalMatches |-> Undefined]}
    \cup
    [mode : {"limited-matches"}, maxMatchesPerTeam : {13, 14},
     maxTotalMatches : {LargeThreshold, LargeThreshold + 1}]

InitLarge ==
    /\ settings \in RepeatSettings
    /\ teams \in LargeTeamLists
    /\ config \in LargeConfigs
    /\ now = 0
    /\ prev = NoCall
    /\ NoHook
    /\ NoApp
    /\ Fresh

SpecLarge == InitLarge /\ [][Next]_vars

\* ------------------------------------------------- a call that runs on
\* generateSchedule is synchronous: a call that has started keeps running
\* until it returns or throws
InitFair ==
    /\ settings \in RepeatSettings
    /\ teams \in RepeatTeams
    /\ config \in ConfigSet
    /\ now = 0
    /\ prev = NoCall
    /\ NoHook
    /\ NoApp
    /\ Fresh

SpecFair == InitFair /\ [][Next]_vars /\ WF_vars(Next)

\* --------------------------------------- useLocalStorage in one tab
\* the scheduler is not running
SchedulerIdle ==
    /\ settings = CHOOSE s \in SettingsSet : TRUE
    /\ teams = <<>>
    /\ config = CHOOSE c \in ConfigSet : c.mode = "round-robin"
    /\ now = 0
    /\ prev = NoCall
    /\ Fresh

\* the hook is mounted in one tab: useLocalStorage('tournaments', [])
InitStorage ==
    /\ localStorage \in {NoItem} \cup {JSONstringify(v) : v \in StoredLists}
    /\ storedValue = [tab \in {1} |-> useStateInitial(localStorage, <<>>)]
    /\ storageEvents = [tab \in {1} |-> <<>>]
    /\ lastCall = NoSetValue
    /\ SchedulerIdle
    /\ NoApp

\* The browser queues a storage event for every other tab when setItem
\* changes the text stored under the key; newValue is the text written.
DispatchStorageEvents(events, tab, oldText, newText) ==
    [t \in DOMAIN events |->
        IF t # tab /\ newText # oldText THEN Append(events[t], newText)
        ELSE events[t]]

\* setValue(value) in a tab: the updater given to setStoredValue computes
\* valueToStore from the state, writes its text and returns it as new state
setValue(tab, value) ==
    LET prevValue == storedValue[tab]
        stored == valueToStore(value, prevValue)
    IN  /\ localStorage' = JSONstringify(stored)
        /\ storedValue' = [storedValue EXCEPT ![tab] = stored]
        /\ storageEvents' = DispatchStorageEvents(storageEvents, tab, localStorage,
                                                  JSONstringify(stored))
        /\ UNCHANGED <<schedulerVars, wizardVars>>

\* the call as an observer of the tab records it
Called(tab, value) ==
    [tab |-> tab, value |-> value,
     prevValue |-> IF value.isFunction THEN storedValue[tab] ELSE <<>>]

SetValueDirect ==
    \E tab \in DOMAIN storedValue, v \in StoredLists :
        /\ setValue(tab, DirectValue(v))
        /\ lastCall' = Called(tab, DirectValue(v))

SetValueUpdater ==
    \E tab \in DOMAIN storedValue, op \in {"save", "delete", "copy"},
       id \in 1..MaxTournaments :
        /\ Len(ApplyUpdater(UpdaterValue(op, id), storedValue[tab])) <= MaxStored
        /\ setValue(tab, UpdaterValue(op, id))
        /\ lastCall' = Called(tab, UpdaterValue(op, id))

NextStorage ==
    \/ SetValueDirect
    \/ SetValueUpdater

SpecStorage == InitStorage /\ [][NextStorage]_vars

\* -------------------------------------- useLocalStorage in two tabs
Tabs == {1, 2}
TabIds == {1, 2}
MaxTabStored == 1
MaxPending == 1

TabLists == UNION {[1..n -> TabIds] : n \in 0..MaxTabStored}

\* both tabs mount the hook on the same key
InitTabs ==
    /\ localStorage \in {NoItem} \cup {JSONstringify(v) : v \in TabLists}
    /\ storedValue = [tab \in Tabs |-> useStateInitial(localStorage, <<>>)]
    /\ storageEvents = [tab \in Tabs |-> <<>>]
    /\ lastCall = NoSetValue
    /\ SchedulerIdle
    /\ NoApp

\* the other tabs can take one more event
RoomForEvents(tab) ==
    \A t \in DOMAIN storageEvents \ {tab} : Len(storageEvents[t]) < MaxPending

TabSetValueDirect ==
    \E tab \in DOMAIN storedValue, v \in TabLists :
        /\ RoomForEvents(tab)
        /\ setValue(tab, DirectValue(v))
        /\ UNCHANGED lastCall

TabSetValueUpdater ==
    \E tab \in DOMAIN storedValue, op \in {"save", "delete", "copy"},
       id \in TabIds :
        /\ RoomForEvents(tab)
        /\ Len(ApplyUpdater(UpdaterValue(op, id), storedValue[tab])) <= MaxTabStored
        /\ setValue(tab, UpdaterValue(op, id))
        /\ UNCHANGED lastCall

\* handleStorageChange(e) in a tab, for the oldest undelivered event: the
\* key is the hook's key; a newValue that is not null becomes the state
handleStorageChange ==
    \E tab \in DOMAIN storageEvents :
        /\ Len(storageEvents[tab]) > 0
        /\ LET newValue == Head(storageEvents[tab])
           IN  storedValue' =
                 IF newValue # NoItem
                 THEN [storedValue EXCEPT ![tab] = JSONparse(newValue)]
                 ELSE storedValue
        /\ storageEvents' = [storageEvents EXCEPT ![tab] = Tail(@)]
        /\ UNCHANGED <<localStorage, lastCall, schedulerVars, wizardVars>>

NextTabs ==
    \/ TabSetValueUpdater
    \/ TabSetValueDirect
    \/ handleStorageChange

SpecTabs == InitTabs /\ [][NextTabs]_vars

\* ------------------------------------------- schedules the sort reorders
\* Six teams with four or five matches each: a match that waits for a team
\* is placed after the start of a match generated later, so the final sort
\* changes the order of the list.
ReorderTeamLists == {[i \in 1..n |-> i] : n \in {0, 1, 6}}

ReorderConfigs ==
    {[mode |-> "round-robin", maxMatchesPerTeam |-> Undefined,
      maxTotalMatches |-> Undefined]}
    \cup
    [mode : {"limited-matches"}, maxMatchesPerTeam : {4, 5},
     maxTotalMatches : {Undefined}]

InitReorder ==
    /\ settings \in {s \in SettingsSet : /\ s.matchMode = "full-time"
                                         /\ s.matchDurationMinutes = MinMatchDuration}
    /\ teams \in ReorderTeamLists
    /\ config \in ReorderConfigs
    /\ now = 0
    /\ prev = NoCall
    /\ NoHook
    /\ NoApp
    /\ Fresh

SpecReorder == InitReorder /\ [][Next]_vars

\* ------------------------------------------- the test suite's settings
\* defaultSettings of the scheduler tests: start 09:00, 2 pitches,
\* full-time matches of 30 minutes, 5 minutes between matches
ScenarioPitches == 2
ScenarioDuration == 30
ScenarioBreak == 5

ScenarioSettings ==
    {[startDate |-> sd, startTime |-> <<9, 0>>, numPitches |-> ScenarioPitches,
      matchMode |-> "full-time", matchDurationMinutes |-> ScenarioDuration,
      halfDurationMinutes |-> Undefined, halftimeBreakMinutes |-> Undefined,
      breakBetweenMatches |-> ScenarioBreak] :
        sd \in {"2026-01-15", "not-a-date"}}

InitScenario ==
    /\ settings \in ScenarioSettings
    /\ teams \in TeamLists
    /\ config \in ConfigSet
    /\ now \in 0..MaxClock
    /\ prev = NoCall
    /\ NoHook
    /\ NoApp
    /\ Fresh

SpecScenario == InitScenario /\ [][Next]_vars

\* ------------------------------------------------- Step3SchedulingMode
\* the round-robin total shown in step 3
roundRobinMatches(teamCount) ==
    IF teamCount % 2 = 0 THEN (teamCount * (teamCount - 1)) \div 2
    ELSE ((teamCount + 1) * teamCount) \div 2

\* ------------------------------------------------------- App.tsx: wizard
MaxWizardTeams == 3
MaxIds == 2
MaxHistory == 8

\* null: no tournament id, no schedule
NoId == 0
NoSchedule == [generated |-> FALSE]

\* INITIAL_SETTINGS: 2 pitches, full-time 30 minutes, 5 minutes between
\* matches, start 09:00
INITIAL_SETTINGS == CHOOSE s \in ScenarioSettings : s.startDate = "2026-01-15"

\* INITIAL_CONFIG: { mode: 'round-robin' }
INITIAL_CONFIG ==
    [mode |-> "round-robin", maxMatchesPerTeam |-> Undefined,
     maxTotalMatches |-> Undefined]

\* what the user submits in steps 1, 2 and 3: the settings and the config
\* as the forms show them first, and two or more teams
WizardSettings == {INITIAL_SETTINGS}

WizardTeams == {[i \in 1..n |-> i] : n \in 2..MaxWizardTeams}

WizardConfigs == {INITIAL_CONFIG}

\* The value generateSchedule(s, t, c) returns, kept as the call it came
\* from and the number of its matches: all pairs in round-robin mode, the
\* limited-matches target otherwise.
GeneratedSchedule(s, t, c) ==
    [generated |-> TRUE,
     from |-> [settings |-> s, teams |-> t, schedulingConfig |-> c],
     matchCount |-> IF c.mode = "round-robin"
                    THEN (Len(t) * (Len(t) - 1)) \div 2
                    ELSE TwiceTargetMatches(t, c) \div 2]

\* App has just mounted on '/', nothing saved
InitWizard ==
    /\ app = [currentStep |-> 0, settings |-> INITIAL_SETTINGS, teams |-> <<>>,
              schedulingConfig |-> INITIAL_CONFIG, schedule |-> NoSchedule,
              currentTournamentId |-> NoId]
    /\ tournaments = <<>>
    /\ history = [entries |-> <<[tournamentId |-> NoId, step |-> 0]>>, index |-> 1]
    /\ issued = 0
    /\ SchedulerIdle
    /\ NoHook

\* window.history.pushState in updateURL: the entries after the current one
\* are dropped and the new entry becomes the current one
updateURL(tournamentId, step) ==
    /\ Len(history.entries) < MaxHistory \/ history.index < Len(history.entries)
    /\ history.index < MaxHistory
    /\ history' = [entries |-> Append(SubSeq(history.entries, 1, history.index),
                                      [tournamentId |-> tournamentId, step |-> step]),
                   index |-> history.index + 1]

WizardFrame == UNCHANGED <<schedulerVars, storageVars>>

handleStartNew ==
    /\ app.currentStep = 0
    /\ app' = [currentStep |-> 1, settings |-> INITIAL_SETTINGS, teams |-> <<>>,
               schedulingConfig |-> INITIAL_CONFIG, schedule |-> NoSchedule,
               currentTournamentId |-> NoId]
    /\ updateURL(NoId, 1)
    /\ UNCHANGED <<tournaments, issued>>
    /\ WizardFrame

handleStep1Complete ==
    /\ app.currentStep = 1
    /\ \E data \in WizardSettings :
          app' = [app EXCEPT !.settings = data, !.currentStep = 2]
    /\ updateURL(app.currentTournamentId, 2)
    /\ UNCHANGED <<tournaments, issued>>
    /\ WizardFrame

handleStep2Complete ==
    /\ app.currentStep = 2
    /\ \E data \in WizardTeams :
          app' = [app EXCEPT !.teams = data, !.currentStep = 3]
    /\ updateURL(app.currentTournamentId, 3)
    /\ UNCHANGED <<tournaments, issued>>
    /\ WizardFrame

\* Step 3 is only completed with a config the teams in the state allow
handleStep3Complete ==
    /\ app.currentStep = 3
    /\ \E c \in WizardConfigs :
          app' = [app EXCEPT !.schedulingConfig = c,
                             !.schedule = GeneratedSchedule(app.settings, app.teams, c),
                             !.currentStep = 4]
    /\ updateURL(app.currentTournamentId, 4)
    /\ UNCHANGED <<tournaments, issued>>
    /\ WizardFrame

\* the onBack of the step shown; step 4 is shown only with a schedule
StepBack ==
    /\ app.currentStep \in 1..4
    /\ app.currentStep = 4 => app.schedule # NoSchedule
    /\ app' = [app EXCEPT !.currentStep = app.currentStep - 1]
    /\ updateURL(IF app.currentStep = 1 THEN NoId ELSE app.currentTournamentId,
                 app.currentStep - 1)
    /\ UNCHANGED <<tournaments, issued>>
    /\ WizardFrame

IndexOfTournament(id) ==
    IF \E i \in 1..Len(tournaments) : tournaments[i].id = id
    THEN CHOOSE i \in 1..Len(tournaments) : tournaments[i].id = id
    ELSE 0

handleSaveTournament ==
    /\ app.currentStep = 4
    /\ app.schedule # NoSchedule
    /\ LET new == app.currentTournamentId = NoId
           id == IF new THEN issued + 1 ELSE app.currentTournamentId
           tournament == [id |-> id, settings |-> app.settings, teams |-> app.teams,
                          schedulingConfig |-> app.schedulingConfig,
                          schedule |-> app.schedule, writtenBy |-> "save"]
           existing == IndexOfTournament(id)
       IN  /\ new => issued < MaxIds
           /\ issued' = IF new THEN issued + 1 ELSE issued
           /\ tournaments' = IF existing > 0
                             THEN [tournaments EXCEPT ![existing] = tournament]
                             ELSE Append(tournaments, tournament)
           /\ app' = [app EXCEPT !.currentTournamentId = id, !.currentStep = 0]
    /\ updateURL(NoId, 0)
    /\ WizardFrame

\* the stored fields of a tournament become the wizard's state
Loaded(tournament, step) ==
    [currentStep |-> step, settings |-> tournament.settings,
     teams |-> tournament.teams,
     schedulingConfig |-> tournament.schedulingConfig,
     schedule |-> tournament.schedule,
     currentTournamentId |-> tournament.id]

handleLoadTournament ==
    /\ app.currentStep = 0
    /\ \E i \in 1..Len(tournaments) :
          LET step == IF tournaments[i].schedule # NoSchedule THEN 4 ELSE 1
          IN  /\ app' = Loaded(tournaments[i], step)
              /\ updateURL(tournaments[i].id, step)
    /\ UNCHANGED <<tournaments, issued>>
    /\ WizardFrame

handleCopyTournament ==
    /\ app.currentStep = 0
    /\ issued < MaxIds
    /\ \E i \in 1..Len(tournaments) :
          tournaments' = Append(tournaments,
                                [tournaments[i] EXCEPT !.id = issued + 1,
                                                       !.writtenBy = "copy"])
    /\ issued' = issued + 1
    /\ UNCHANGED <<app, history>>
    /\ WizardFrame

confirmDelete ==
    /\ app.currentStep = 0
    /\ \E i \in 1..Len(tournaments) :
          tournaments' = SelectSeq(tournaments,
                                   LAMBDA t : t.id # tournaments[i].id)
    /\ UNCHANGED <<app, history, issued>>
    /\ WizardFrame

\* handlePopState for the entry the browser has moved to
handlePopState(entry) ==
    IF entry.tournamentId # NoId /\ Len(tournaments) > 0
    THEN LET i == IndexOfTournament(entry.tournamentId)
         IN  IF i > 0
             THEN Loaded(tournaments[i],
                         IF entry.step # 0 THEN entry.step
                         ELSE IF tournaments[i].schedule # NoSchedule THEN 4 ELSE 1)
             ELSE [app EXCEPT !.currentStep = 0, !.currentTournamentId = NoId]
    ELSE [app EXCEPT !.currentStep = entry.step,
                     !.currentTournamentId =
                        IF entry.step = 0 THEN NoId ELSE app.currentTournamentId]

BrowserBack ==
    /\ history.index > 1
    /\ history' = [history EXCEPT !.index = history.index - 1]
    /\ app' = handlePopState(history.entries[history.index - 1])
    /\ UNCHANGED <<tournaments, issued>>
    /\ WizardFrame

BrowserForward ==
    /\ history.index < Len(history.entries)
    /\ history' = [history EXCEPT !.index = history.index + 1]
    /\ app' = handlePopState(history.entries[history.index + 1])
    /\ UNCHANGED <<tournaments, issued>>
    /\ WizardFrame

NextWizard ==
    \/ handleStartNew
    \/ handleStep1Complete
    \/ handleStep2Complete
    \/ handleStep3Complete
    \/ StepBack
    \/ handleSaveTournament
    \/ handleLoadTournament
    \/ handleCopyTournament
    \/ confirmDelete
    \/ BrowserBack
    \/ BrowserForward

SpecWizard == InitWizard /\ [][NextWizard]_vars

\* ===================================================== the properties
Returned == pc = "done"
RoundRobin == config.mode = "round-robin"
Limited == config.mode = "limited-matches"
Plays(m, t) == m.homeTeam = t \/ m.awayTeam = t
SharesTeam(a, b) == Plays(b, a.homeTeam) \/ Plays(b, a.awayTeam)
Overlap(a, b) == a.startTime < b.endTime /\ b.startTime < a.endTime
MatchesOf(t) == {i \in 1..Len(matches) : Plays(matches[i], t)}
MatchesBetween(a, b) ==
    {i \in 1..Len(matches) : {matches[i].homeTeam, matches[i].awayTeam} = {a, b}}
RealPairs == {ab \in Range(teams) \X Range(teams) : ab[1] < ab[2]}

\* C1: in every returned schedule no two matches on the same pitch overlap
\* in [startTime, endTime), and no two matches of the same team overlap.
C1_NoOverlap ==
    Returned =>
        \A i, j \in 1..Len(matches) :
            (i < j /\ (matches[i].pitch = matches[j].pitch
                       \/ SharesTeam(matches[i], matches[j])))
                => ~Overlap(matches[i], matches[j])

\* a returned schedule with two matches on one pitch, two matches of one
\* team, and two matches running at the same time on different pitches
C1_Witness ==
    /\ Returned
    /\ \E i, j \in 1..Len(matches) :
          i < j /\ matches[i].pitch = matches[j].pitch
    /\ \E i, j \in 1..Len(matches) :
          i < j /\ SharesTeam(matches[i], matches[j])
    /\ \E i, j \in 1..Len(matches) :
          i < j /\ matches[i].pitch # matches[j].pitch
                /\ Overlap(matches[i], matches[j])

\* C2: round-robin with an even team count n >= 2 returns n(n-1)/2 matches
\* in which every unordered pair of teams meets exactly once (so every team
\* plays n-1 matches against n-1 distinct opponents).
C2_RoundRobinEven ==
    (Returned /\ RoundRobin /\ Len(teams) >= 2 /\ Len(teams) % 2 = 0) =>
        /\ 2 * Len(matches) = Len(teams) * (Len(teams) - 1)
        /\ \A ab \in RealPairs : Cardinality(MatchesBetween(ab[1], ab[2])) = 1
        /\ \A t \in Range(teams) : Cardinality(MatchesOf(t)) = Len(teams) - 1

C2_Witness ==
    /\ Returned /\ RoundRobin /\ Len(teams) = 4
    /\ Len(matches) = 6

\* C3: round-robin with an odd team count n emits the BYE warning, returns
\* n(n-1)/2 matches covering every unordered pair of real teams exactly
\* once, and no returned match has the BYE team as home or away team.
C3_RoundRobinOdd ==
    (Returned /\ RoundRobin /\ Len(teams) % 2 = 1) =>
        /\ \E w \in 1..Len(warnings) : warnings[w] = <<"BYE">>
        /\ 2 * Len(matches) = Len(teams) * (Len(teams) - 1)
        /\ \A ab \in RealPairs : Cardinality(MatchesBetween(ab[1], ab[2])) = 1
        /\ \A i \in 1..Len(matches) : ~Plays(matches[i], BYE)

C3_Witness ==
    /\ Returned /\ RoundRobin /\ Len(teams) = 3
    /\ Len(workingTeams) = 4
    /\ Len(matches) = 3

\* C4: in limited-matches mode with maxMatchesPerTeam = k >= 1 every team
\* appears in at most k returned matches, also when a pairing is repeated.
C4_PerTeamBound ==
    (Returned /\ Limited /\ config.maxMatchesPerTeam >= 1) =>
        \A t \in Range(teams) :
            Cardinality(MatchesOf(t)) <= config.maxMatchesPerTeam

\* a run that repeated a pairing and brought a team to exactly k matches
C4_Witness ==
    /\ Returned /\ Limited
    /\ \E ab \in RealPairs : Cardinality(MatchesBetween(ab[1], ab[2])) >= 2
    /\ \E t \in Range(teams) :
          Cardinality(MatchesOf(t)) = config.maxMatchesPerTeam

\* the effective duration as the data model defines it
EffectiveDuration(s) ==
    IF s.matchMode = "full-time" THEN s.matchDurationMinutes
    ELSE 2 * s.halfDurationMinutes + s.halftimeBreakMinutes

SettingsInRange(s) ==
    IF s.matchMode = "full-time" THEN s.matchDurationMinutes >= MinMatchDuration
    ELSE s.halfDurationMinutes >= MinHalfDuration /\ s.halftimeBreakMinutes >= 0

\* C5: for every returned match endTime - startTime is the effective match
\* duration: matchDurationMinutes in full-time mode, 2 * halfDurationMinutes
\* + halftimeBreakMinutes in two-halves mode, for all settings in range
\* (halftimeBreakMinutes = 0 included).
C5_Duration ==
    (Returned /\ SettingsInRange(settings)) =>
        \A i \in 1..Len(matches) :
            matches[i].endTime - matches[i].startTime = EffectiveDuration(settings)

\* C6: if the start date and time do not parse to a valid instant,
\* generateSchedule fails with an error and returns no schedule, for every
\* team list and both modes.
C6_InvalidStartThrows ==
    StartDateTime = NaN => ~Returned

\* C8: on valid inputs the returned conflicts list is empty and the
\* warnings contain no conflict-summary warning, in either mode and also
\* when a pairing is repeated.
C8_NoConflicts ==
    Returned =>
        /\ conflicts = <<>>
        /\ \A w \in 1..Len(warnings) : warnings[w][1] # "CONFLICTS"

\* a limited-matches schedule that repeats a pairing and runs two matches
\* at the same start time
C8_Witness ==
    /\ Returned /\ Limited
    /\ \E ab \in RealPairs : Cardinality(MatchesBetween(ab[1], ab[2])) >= 2
    /\ \E i, j \in 1..Len(matches) :
          i < j /\ matches[i].startTime = matches[j].startTime

\* C10: in limited-matches mode the number of returned matches never
\* exceeds min(maxTotalMatches, floor(teams.length * maxMatchesPerTeam / 2)),
\* also when the product is odd and when maxTotalMatches is absent.
C10_TotalBound ==
    (Returned /\ Limited) =>
        /\ Len(matches) <= (Len(teams) * config.maxMatchesPerTeam) \div 2
        /\ config.maxTotalMatches # Undefined
              => Len(matches) <= config.maxTotalMatches

\* an odd product with no maxTotalMatches, filled up to the floor
C10_WitnessOdd ==
    /\ Returned /\ Limited
    /\ (Len(teams) * config.maxMatchesPerTeam) % 2 = 1
    /\ config.maxTotalMatches = Undefined
    /\ Len(matches) = (Len(teams) * config.maxMatchesPerTeam) \div 2
    /\ Len(matches) >= 1

\* C7: two calls of generateSchedule with identical settings, teams and
\* config return identical matches (ids, teams, pitches, start and end
\* times, order), whatever calls ran before or between them and whenever
\* they ran.
C7_Deterministic ==
    (/\ Returned
     /\ prev.called
     /\ prev.settings = settings /\ prev.teams = teams /\ prev.config = config)
        => matches = prev.matches

\* a second call with the arguments of a remembered one, made at a later
\* clock reading, returning two matches or more
C7_Witness ==
    /\ Returned
    /\ prev.called
    /\ prev.settings = settings /\ prev.teams = teams /\ prev.config = config
    /\ prev.at < now
    /\ Len(matches) >= 2

\* the matches of team t that start at instant s, in list order
GroupAt(t, s) == SelectSeq(matches, LAMBDA m : Plays(m, t) /\ m.startTime = s)
EntriesFor(t, s) ==
    {c \in 1..Len(conflicts) :
        conflicts[c].team = t /\ conflicts[c].matches[1].startTime = s}
ListTeams == UNION {{matches[i].homeTeam, matches[i].awayTeam} : i \in 1..Len(matches)}
ListTimes == {matches[i].startTime : i \in 1..Len(matches)}

WarningCount(kind) ==
    Cardinality({w \in 1..Len(warnings) : warnings[w][1] = kind})

\* C11: in limited-matches mode the returned warnings contain the
\* duplicate-matchups warning exactly once when maxMatchesPerTeam >
\* teams.length - 1, and not at all otherwise.
C11_DuplicateWarningOnce ==
    (Returned /\ Limited) =>
        WarningCount("DUPLICATES") =
            (IF config.maxMatchesPerTeam > Len(teams) - 1 THEN 1 ELSE 0)

C13_LargeWarning ==
    Returned =>
        /\ WarningCount("LARGE") = (IF Len(matches) > 100 THEN 1 ELSE 0)
        /\ Len(matches) > 100
              => warnings[Len(warnings)] = <<"LARGE", Len(matches)>>

\* 15 teams, round-robin: 105 matches, the BYE warning first and the
\* large-tournament warning last
C13_Witness ==
    /\ Returned /\ RoundRobin /\ Len(teams) = 15
    /\ Len(matches) = 105
    /\ warnings = << <<"BYE">>, <<"LARGE", 105>> >>

\* C14: with a valid start instant and fewer than 2 teams generateSchedule
\* returns normally, with no matches and no conflicts, in both modes; it
\* never raises an error for too few teams.
C14_TooFewTeams ==
    (StartDateTime # NaN /\ Len(teams) < 2) =>
        /\ pc # "error"
        /\ Returned => (matches = <<>> /\ conflicts = <<>>)

\* a single team in round-robin mode: paired with the BYE team only
C14_Witness ==
    /\ Returned /\ RoundRobin
    /\ StartDateTime # NaN
    /\ Len(teams) = 1
    /\ workingTeams = <<1, BYE>>
    /\ matches = <<>>

\* C15: 4 teams, round-robin, 2 pitches, 30-minute full-time matches, 5
\* minutes between matches, start 09:00: 6 matches, no conflicts, 3 matches
\* per team, the first two matches of the list start at 09:00 on different
\* pitches, and no match starts before the end of an earlier match of one
\* of its teams plus 5 minutes.
C15_FourTeamScenario ==
    (Returned /\ RoundRobin /\ Len(teams) = 4) =>
        /\ Len(matches) = 6
        /\ Len(conflicts) = 0
        /\ \A t \in Range(teams) : Cardinality(MatchesOf(t)) = 3
        /\ matches[1].startTime = 9 * 60
        /\ matches[2].startTime = 9 * 60
        /\ matches[1].pitch # matches[2].pitch
        /\ \A i, j \in 1..Len(matches) :
              (/\ SharesTeam(matches[i], matches[j])
               /\ matches[j].startTime < matches[i].startTime)
                 => matches[i].startTime >= matches[j].endTime + 5

\* the scenario's schedule: three rounds of two matches, 35 minutes apart
C15_Witness ==
    /\ Returned /\ RoundRobin /\ Len(teams) = 4
    /\ settings.matchDurationMinutes = 30 /\ settings.breakBetweenMatches = 5
    /\ settings.numPitches = 2
    /\ Len(matches) = 6
    /\ matches[3].startTime = 9 * 60 + 35
    /\ matches[6].endTime = 9 * 60 + 100

\* C16: every returned match has a slot: its pitch is in 1..numPitches (never
\* the placeholder 0) and its start time is at or after the tournament start.
C16_EveryMatchHasSlot ==
    (Returned /\ settings.numPitches >= 1) =>
        \A i \in 1..Len(matches) :
            /\ matches[i].pitch \in 1..settings.numPitches
            /\ matches[i].pitch # 0
            /\ matches[i].startTime >= StartDateTime

\* a returned schedule that uses the first and the last pitch
C16_Witness ==
    /\ Returned /\ settings.numPitches = 2 /\ Len(matches) >= 2
    /\ \E i, j \in 1..Len(matches) : matches[i].pitch = 1 /\ matches[j].pitch = 2
    /\ \E i \in 1..Len(matches) : matches[i].startTime > StartDateTime

MatchIds == {matches[i].id : i \in 1..Len(matches)}

\* C17: the ids of the returned matches are pairwise distinct and are exactly
\* 0 .. m-1 (match-0 .. match-(m-1)), in both modes.
C17_DistinctIds ==
    Returned =>
        /\ \A i, j \in 1..Len(matches) : i # j => matches[i].id # matches[j].id
        /\ MatchIds = 0..(Len(matches) - 1)

\* round-robin with BYE pairs dropped
C17_WitnessBye ==
    /\ Returned /\ RoundRobin /\ Len(teams) = 3 /\ Len(matches) = 3
    /\ MatchIds = {0, 1, 2}

\* limited-matches with a pairing played twice
C17_Witness ==
    /\ Returned /\ Limited /\ Len(matches) >= 2
    /\ \E i, j \in 1..Len(matches) :
          /\ i # j
          /\ {matches[i].homeTeam, matches[i].awayTeam}
               = {matches[j].homeTeam, matches[j].awayTeam}
          /\ matches[i].id # matches[j].id

\* C18: generateSchedule leaves its inputs unchanged: no step of a call
\* changes the caller's teams list (elements and order), settings or config.
C18_InputsUnchanged ==
    [][teams' = teams /\ settings' = settings /\ config' = config]_vars

\* a returned call that added BYE to its working copy only
C18_Witness ==
    /\ Returned /\ RoundRobin
    /\ teams = <<1, 2, 3>>
    /\ workingTeams = <<1, 2, 3, BYE>>
    /\ Len(matches) = 3

\* what the latest setValue call asked for: the value itself, or the updater
\* applied to the state the call found
ResultOf(call) ==
    IF call.value.isFunction THEN ApplyUpdater(call.value, call.prevValue)
    ELSE call.value.value

C19_WitnessDirect ==
    /\ lastCall.tab = 1
    /\ ~lastCall.value.isFunction
    /\ storedValue[1] = <<3, 1>>
    /\ localStorage = <<"[", "3", ",", "1", "]">>

\* a team's last end time, or the tournament start if it has not played
LastEndOrStart(t) ==
    IF teamLastEndTime[t] = Undefined THEN StartDateTime ELSE teamLastEndTime[t]

\* max(tournament start, home last end, away last end, pitch p next-available)
CandidateStart(m, p) ==
    Max(Max(StartDateTime, pitchNextAvailable[p]),
        Max(LastEndOrStart(m.homeTeam), LastEndOrStart(m.awayTeam)))

\* C20: each step of assignTimeSlots takes the next match in generation
\* order, starts it at the minimum over the pitches of max(start, home last
\* end, away last end, pitch next-available) on the lowest-numbered pitch
\* attaining that minimum, then sets that pitch's next-available time to
\* endTime + breakBetweenMatches and both teams' last end time to endTime.
C20_GreedySlot ==
    [][(pc = "assign_loop" /\ cursor <= Len(matches)) =>
          LET m == matches[cursor]
              placed == matches'[cursor]
              pitches == 1..settings.numPitches
          IN  /\ m.id = cursor - 1
              /\ cursor' = cursor + 1
              /\ placed.pitch \in pitches
              /\ placed.startTime = CandidateStart(m, placed.pitch)
              /\ \A p \in pitches : placed.startTime <= CandidateStart(m, p)
              /\ \A p \in pitches :
                    CandidateStart(m, p) = placed.startTime => placed.pitch <= p
              /\ placed.endTime = placed.startTime + calculateMatchDuration(settings)
              /\ placed.homeTeam = m.homeTeam /\ placed.awayTeam = m.awayTeam
              /\ placed.id = m.id
              /\ \A i \in 1..Len(matches) : i # cursor => matches'[i] = matches[i]
              /\ pitchNextAvailable' =
                   [pitchNextAvailable EXCEPT ![placed.pitch] =
                      placed.endTime + settings.breakBetweenMatches]
              /\ teamLastEndTime' =
                   [t \in DOMAIN teamLastEndTime |->
                      IF t \in {m.homeTeam, m.awayTeam} THEN placed.endTime
                      ELSE teamLastEndTime[t]]
      ]_vars

\* all matches placed on two pitches: the first two tie at the start and go
\* to pitches 1 and 2, a later one waits for a team that has just played
C20_Witness ==
    /\ pc = "assign_loop" /\ cursor = Len(matches) + 1
    /\ settings.numPitches = 2 /\ Len(matches) >= 3
    /\ matches[1].pitch = 1 /\ matches[1].startTime = StartDateTime
    /\ matches[2].pitch = 2 /\ matches[2].startTime = StartDateTime
    /\ \E i \in 3..Len(matches) :
          /\ matches[i].startTime > StartDateTime
          /\ teamLastEndTime[matches[i].homeTeam] >= matches[i].endTime
          /\ pitchNextAvailable[matches[i].pitch]
               >= matches[i].endTime + settings.breakBetweenMatches

\* C21: of two matches on the same pitch, the later one starts no earlier
\* than the end of the earlier one plus breakBetweenMatches.
C21_PitchBreak ==
    Returned =>
        \A i, j \in 1..Len(matches) :
            (/\ i # j
             /\ matches[i].pitch = matches[j].pitch
             /\ matches[i].startTime <= matches[j].startTime)
               => matches[j].startTime
                    >= matches[i].endTime + settings.breakBetweenMatches

\* back-to-back matches on one pitch, separated by exactly a non-zero break
C21_Witness ==
    /\ Returned /\ settings.breakBetweenMatches = 1
    /\ \E i, j \in 1..Len(matches) :
          /\ matches[i].pitch = matches[j].pitch
          /\ matches[j].startTime = matches[i].endTime + 1

\* C22: the returned list is in non-decreasing start time order and matches
\* of equal start time are in assignment order (ascending id).
C22_SortedStable ==
    Returned =>
        \A i, j \in 1..Len(matches) :
            i < j =>
                /\ matches[i].startTime <= matches[j].startTime
                /\ matches[i].startTime = matches[j].startTime
                      => matches[i].id < matches[j].id

\* a returned list with a tie and with a match the sort moved forward
C22_Witness ==
    /\ Returned
    /\ \E i, j \in 1..Len(matches) :
          i < j /\ matches[i].startTime = matches[j].startTime
    /\ \E i, j \in 1..Len(matches) :
          i < j /\ matches[i].id > matches[j].id

\* the unordered pairs played by the matches generated so far
PlayedPairs == {{matches[i].homeTeam, matches[i].awayTeam} : i \in 1..Len(matches)}

\* the teams still below maxMatchesPerTeam, counted from the matches
BelowMax ==
    {t \in Range(workingTeams) : Cardinality(MatchesOf(t)) < MaxPerTeamOf(config)}

PositionIn(t) == CHOOSE i \in 1..Len(workingTeams) : workingTeams[i] = t

\* t comes before u in ascending-counter order (ties: list order)
ScannedBefore(t, u) ==
    \/ Cardinality(MatchesOf(t)) < Cardinality(MatchesOf(u))
    \/ /\ Cardinality(MatchesOf(t)) = Cardinality(MatchesOf(u))
       /\ PositionIn(t) < PositionIn(u)

\* the pairs <<t, u>> of available teams, t scanned before u, not yet played
UnusedPairs ==
    {tu \in BelowMax \X BelowMax :
        ScannedBefore(tu[1], tu[2]) /\ {tu[1], tu[2]} \notin PlayedPairs}

\* <<t, u>> is met before <<v, w>> by the nested loops
PairScannedBefore(tu, vw) ==
    \/ ScannedBefore(tu[1], vw[1])
    \/ (tu[1] = vw[1] /\ (tu[2] = vw[2] \/ ScannedBefore(tu[2], vw[2])))

\* C23: an iteration of the limited-matches loop repeats a played pairing
\* only when every pair of available teams has been played, and then pairs
\* the two lowest-count available teams; otherwise it takes the first unused
\* pair in the scan of the available teams in ascending-counter order.
C23_PairChoice ==
    [][(pc = "limited_loop" /\ Len(matches') = Len(matches) + 1) =>
          LET new == matches'[Len(matches')]
              chosen == <<new.homeTeam, new.awayTeam>>
          IN  /\ new.homeTeam \in BelowMax /\ new.awayTeam \in BelowMax
              /\ new.homeTeam # new.awayTeam
              /\ IF {new.homeTeam, new.awayTeam} \in PlayedPairs
                 THEN /\ UnusedPairs = {}
                      /\ ScannedBefore(new.homeTeam, new.awayTeam)
                      /\ \A t \in BelowMax \ {new.homeTeam, new.awayTeam} :
                            ScannedBefore(new.awayTeam, t)
                 ELSE /\ chosen \in UnusedPairs
                      /\ \A tu \in UnusedPairs : PairScannedBefore(chosen, tu)
      ]_vars

\* three teams, three matches each: after the three pairs are used up the
\* loop has repeated a pairing
C23_Witness ==
    /\ pc = "limited_loop" /\ Len(teams) = 3 /\ Len(matches) = 4
    /\ \E i \in 1..3 :
          {matches[i].homeTeam, matches[i].awayTeam}
            = {matches[4].homeTeam, matches[4].awayTeam}
    /\ Cardinality(PlayedPairs) = 3

\* a first unused pair that is not the two lowest-count teams
C23_WitnessSkip ==
    /\ pc = "limited_loop" /\ Len(matches) >= 2
    /\ LET last == matches[Len(matches)]
       IN  \E t \in Range(workingTeams) \ {last.homeTeam, last.awayTeam} :
              /\ Cardinality(MatchesOf(t)) < MaxPerTeamOf(config)
              /\ Cardinality(MatchesOf(t)) < Cardinality(MatchesOf(last.awayTeam)) - 1

\* C24 as stated: the attempt counter always equals the number of matches
\* produced.
C24_AttemptsEqualMatches ==
    (Limited /\ pc \notin {"start", "limited"}) => attempts = Len(matches)

\* the loop has been left
AfterLimitedLoop == Limited /\ pc \in {"assign", "assign_loop", "finish", "done", "error"}

\* C24 (amended): the limited-matches loop terminates; at the start of every
\* iteration the attempt counter equals the number of matches, every
\* iteration either adds exactly one match or stops because fewer than two
\* teams are available (that last iteration still counts as an attempt, so
\* afterwards the counter is the number of matches or one more), and the
\* loop is left at the target or for lack of available teams, never because
\* the target*10 attempt budget is used up.
C24_LoopTerminates ==
    /\ [](pc = "limited_loop" =>
            /\ attempts = Len(matches)
            /\ 2 * Len(matches) < TwiceTargetMatches(workingTeams, config)
                  => 2 * attempts
                       < TwiceTargetMatches(workingTeams, config) * AttemptFactor)
    /\ [](AfterLimitedLoop => attempts \in {Len(matches), Len(matches) + 1})
    /\ [][pc = "limited_loop" =>
            /\ attempts' \in {attempts, attempts + 1}
            /\ pc' = "limited_loop" =>
                  /\ Len(matches') = Len(matches) + 1
                  /\ attempts' = attempts + 1
            /\ pc' # "limited_loop" =>
                  /\ matches' = matches
                  /\ \/ /\ 2 * Len(matches) >= TwiceTargetMatches(workingTeams, config)
                        /\ attempts' = attempts
                     \/ /\ Cardinality(BelowMax) < 2
                        /\ attempts' = attempts + 1
         ]_vars
    /\ (pc = "limited_loop") ~> (pc \in {"done", "error"})

\* a loop left for lack of available teams, below the target, after an
\* iteration that added no match
C24_Witness ==
    /\ Limited /\ pc = "assign" /\ Len(teams) = 3
    /\ Len(matches) = 1 /\ attempts = 2
    /\ 2 * Len(matches) < TwiceTargetMatches(workingTeams, config)

\* a loop left at the target
C24_WitnessTarget ==
    /\ Limited /\ pc = "assign" /\ Len(teams) = 3
    /\ Len(matches) = 3 /\ attempts = 3
    /\ 2 * Len(matches) >= TwiceTargetMatches(workingTeams, config)

\* C25: in limited-matches mode with maxMatchesPerTeam <= teams.length - 1
\* (no duplicate-matchups warning), no unordered pair of teams appears in
\* more than one returned match.
C25_NoRepeatedPairing ==
    (Returned /\ Limited /\ MaxPerTeamOf(config) <= Len(teams) - 1) =>
        \A ab \in RealPairs : Cardinality(MatchesBetween(ab[1], ab[2])) <= 1

\* C26: in limited-matches mode with at least 2 teams the number of returned
\* matches is min(maxTotalMatches, floor(teams.length * maxMatchesPerTeam / 2)).
C26_MatchCount ==
    (Returned /\ Limited /\ Len(teams) >= 2) =>
        LET possible == (Len(teams) * MaxPerTeamOf(config)) \div 2
        IN  Len(matches) = IF Falsy(config.maxTotalMatches) THEN possible
                           ELSE Min(config.maxTotalMatches, possible)

\* an odd number of team slots: the loop stops for lack of teams, one short
\* of the half-integer target, with one team a single match below the bound
C26_Witness ==
    /\ Returned /\ Limited /\ Len(teams) = 5 /\ config.maxMatchesPerTeam = 3
    /\ Falsy(config.maxTotalMatches)
    /\ Len(matches) = 7
    /\ \E t \in Range(teams) : Cardinality(MatchesOf(t)) = 2

\* the total bound cuts the schedule short
C26_WitnessTotal ==
    /\ Returned /\ Limited /\ Len(teams) = 4 /\ config.maxMatchesPerTeam = 3
    /\ config.maxTotalMatches = 2 /\ Len(matches) = 2

\* C27: for every team, each of its matches starts no earlier than the end
\* of the team's previous match plus breakBetweenMatches.
C27_TeamBreak ==
    Returned =>
        \A i, j \in 1..Len(matches) :
            (/\ i # j
             /\ SharesTeam(matches[i], matches[j])
             /\ matches[i].startTime <= matches[j].startTime)
               => matches[j].startTime
                    >= matches[i].endTime + settings.breakBetweenMatches

\* C29: for every team count >= 2 the round-robin total shown in step 3
\* equals the number of matches generateSchedule returns in round-robin mode.
C29_ShownTotal ==
    (Returned /\ RoundRobin /\ Len(teams) >= 2) =>
        Len(matches) = roundRobinMatches(Len(teams))

\* every storage event has been delivered
AllDelivered == \A tab \in DOMAIN storageEvents : storageEvents[tab] = <<>>

\* C30: with two tabs on one key, once every pending storage event has been
\* delivered each tab's state equals the value held in localStorage.
C30_TabsConverge ==
    (AllDelivered /\ localStorage # NoItem) =>
        \A tab \in DOMAIN storedValue : storedValue[tab] = JSONparse(localStorage)

\* C28: every tournament written by handleSaveTournament holds a schedule
\* generated by generateSchedule from exactly the teams, settings and
\* scheduling config stored in that tournament.
C28_SavedScheduleMatchesInputs ==
    \A i \in 1..Len(tournaments) :
        tournaments[i].writtenBy = "save" =>
            tournaments[i].schedule =
                GeneratedSchedule(tournaments[i].settings, tournaments[i].teams,
                                  tournaments[i].schedulingConfig)

====
